---- MODULE Spec2Model ----
(***************************************************************************)
(* userAuthService (src/src/services/userService.js) and rankService       *)
(* (src/src/services/rankService.js) as a state machine.                   *)
(*                                                                         *)
(* Every `await` of a service method is one step of the request that runs  *)
(* it: the awaited collaborator call takes effect (or throws), and the     *)
(* synchronous code up to the next `await` runs with it.  Requests of      *)
(* different callers interleave at these steps, as they do on the Node     *)
(* event loop.  The collaborators under ../db (mysqlDB, User, Rank),       *)
(* bcrypt and jsonwebtoken are not part of the two source files; they are  *)
(* modelled from the interface section of the specification: one shared    *)
(* database handle that runs every statement of every request in one       *)
(* MySQL session.                                                          *)
(***************************************************************************)
EXTENDS Integers, Sequences, FiniteSets, TLC

\* ---------------------------------------------------------------- bounds
\* Requests started in one behaviour.
MaxRequests == 2
\* Request slots: the callers whose requests may be in flight together.
Slots == {"r1", "r2"}

\* ---------------------------------------------------------------- inputs
Emails == {"a@x.com", "b@x.com"}
\* Passwords tried at login, and the password new users register with.
Passwords == {"pw1", "pw2"}
NewPasswords == {"pw2"}
Nicknames == {"n2"}
ImageUrls == {"img"}
Dates == {"d1"}
\* userId arguments: the registered user and the id the next insert takes.
IdInputs == {1, 2}

\* toUpdate objects, as Object.entries lists them (insertion order).
ToUpdates ==
    { <<>>,
      << <<"nickname", "n2">>, <<"description", "d2">> >> }

\* The `point` argument of getRankList: a JavaScript number or string.
PointInputs ==
    { [js |-> "number", text |-> "0"],
      [js |-> "number", text |-> "-1"],
      [js |-> "string", text |-> "0"],
      [js |-> "string", text |-> ""],
      [js |-> "string", text |-> "30"] }
NoPoint == [js |-> "undefined", text |-> "undefined"]

\* ---------------------------------------------------------------- errors
\* The error classes of ../middlewares/errorMiddleware.js the services import.
ErrorKinds ==
    {"ConflictError", "UnauthorizedError", "BadRequestError", "NotFoundError",
     "InternalServerError"}
\* An exception thrown by a collaborator (driver, bcrypt, jsonwebtoken).
RawError == "RawError"

\* ---------------------------------------------------------------- collaborators
\* bcrypt.hash(password, cost): one-way, never the plaintext.
Hash(p) ==
    CASE p = "pw1" -> "$2b$pw1"
      [] p = "pw2" -> "$2b$pw2"
      [] OTHER -> "$2b$"

\* bcrypt.compare(password, hash).
Compare(p, h) == Hash(p) = h

\* jwt.sign(payload, secretKey): a token that decodes to its payload.
Sign(payload, key) == [payload |-> payload, key |-> key]
Decode(token) == token.payload

\* What findById / findByEmail return when there is no row (null/undefined).
NoUser ==
    [id |-> 0, email |-> "", password |-> "", nickname |-> "", description |-> "",
     imageUrl |-> "", point |-> 0, accuPoint |-> 0]

\* JavaScript truthiness of a lookup's result: `if (user)`, `if (!user)`.
Truthy(u) == u.id # 0

\* Reading a property of an object: a property the object does not have
\* reads as undefined (`user.userImage` on a row that has no such column).
Undefined == "undefined"
Get(obj, name) == IF name \in DOMAIN obj THEN obj[name] ELSE Undefined

\* The user row registered before the first request of a behaviour.
SeedUser ==
    [id |-> 1, email |-> "a@x.com", password |-> Hash("pw1"), nickname |-> "n1",
     description |-> "d1", imageUrl |-> "img", point |-> 10, accuPoint |-> 30]

\* User.findById({ userId }) and User.findByEmail({ email }) on a set of rows.
FindById(rows, userId) ==
    IF \E u \in rows : u.id = userId
    THEN CHOOSE u \in rows : u.id = userId
    ELSE NoUser

FindByEmail(rows, email) ==
    IF \E u \in rows : u.email = email
    THEN CHOOSE u \in rows : u.email = email
    ELSE NoUser

\* User.create({ email, password, nickname, imageUrl }): the inserted row.
NewRow(id, email, password, nickname, imageUrl) ==
    [id |-> id, email |-> email, password |-> password, nickname |-> nickname,
     description |-> "", imageUrl |-> imageUrl, point |-> 0, accuPoint |-> 0]

\* User.update({ userId, fieldToUpdate, newValue, imageUrl }) on a set of rows.
UpdateRows(rows, userId, fieldToUpdate, newValue, imageUrl) ==
    { IF u.id = userId
      THEN [u EXCEPT ![fieldToUpdate] = newValue, !.imageUrl = imageUrl]
      ELSE u : u \in rows }

\* User.delete({ userId }) on a set of rows.
DeleteRows(rows, userId) == { u \in rows : u.id # userId }

\* Abstract equality of `point` with a number (`point == 0`, `point == -1`):
\* a string operand is converted with ToNumber, and "" converts to 0.
ToNumber(p) ==
    CASE p.text = "" -> 0
      [] p.text = "0" -> 0
      [] p.text = "-1" -> -1
      [] p.text = "30" -> 30

LooseEq(p, n) == p.js \in {"number", "string"} /\ ToNumber(p) = n

\* Rank entries: the ids of `rows` by accumulated point, highest first.
RECURSIVE RankSeq(_)
RankSeq(rows) ==
    IF rows = {} THEN <<>>
    ELSE LET top == CHOOSE u \in rows :
                        \A v \in rows : \/ u.accuPoint > v.accuPoint
                                        \/ u.accuPoint = v.accuPoint /\ u.id <= v.id
         IN <<top.id>> \o RankSeq(rows \ {top})

\* Rank.firstRankList() and Rank.getRankList({ point, date }).
FirstRankList(rows) == [call |-> "Rank.firstRankList", entries |-> RankSeq(rows)]

GetRankListPage(rows, point, date) ==
    [call |-> "Rank.getRankList", point |-> point, date |-> date,
     entries |-> RankSeq({ u \in rows : u.accuPoint < ToNumber(point) })]

\* The completion marker getRankList returns for point == -1.
DoneMarker == [call |-> "none", entries |-> <<"marker">>]

\* ---------------------------------------------------------------- state
VARIABLES
    users,      \* rows of the user table as the shared session sees them
    committed,  \* rows of the user table that are durable
    inTxn,      \* the shared session has an open transaction
    writers,    \* slots whose running request has writes pending in the open transaction
    nextId,     \* auto-increment key of the user table
    nStarted,   \* requests started so far
    req         \* per slot: the running request, its locals and its call log

vars == <<users, committed, inTxn, writers, nextId, nStarted, req>>
db == <<users, committed, inTxn, writers>>

Idle ==
    [op |-> "none", pc |-> "idle", email |-> "", password |-> "", nickname |-> "",
     imageUrl |-> "", userId |-> 0, toUpdate |-> <<>>, point |-> NoPoint, date |-> "",
     user |-> NoUser, hashedPassword |-> "", k |-> 0, err |-> "", result |-> "",
     out |-> <<>>, log |-> <<>>, threw |-> FALSE]

Init ==
    /\ users = {SeedUser}
    /\ committed = {SeedUser}
    /\ inTxn = FALSE
    /\ writers = {}
    /\ nextId = 2
    /\ nStarted = 0
    /\ req = [r \in Slots |-> Idle]

\* ---------------------------------------------------------------- mysqlDB
\* mysqlDB.query('START TRANSACTION'): begins a transaction in the shared
\* session; an open transaction is committed first.
DbStart ==
    /\ committed' = users
    /\ users' = users
    /\ inTxn' = TRUE
    /\ writers' = {}

\* mysqlDB.query('COMMIT').
DbCommit ==
    /\ committed' = users
    /\ users' = users
    /\ inTxn' = FALSE
    /\ writers' = {}

\* mysqlDB.query('ROLLBACK').
DbRollback ==
    /\ users' = committed
    /\ committed' = committed
    /\ inTxn' = FALSE
    /\ writers' = {}

\* A write statement of slot r leaving `rows`: durable at once outside a
\* transaction (autocommit), pending inside one.
DbWrite(r, rows) ==
    /\ users' = rows
    /\ committed' = IF inTxn THEN committed ELSE rows
    /\ writers' = IF inTxn THEN writers \cup {r} ELSE writers
    /\ inTxn' = inTxn

\* ---------------------------------------------------------------- requests
Free(r) == req[r].pc \in {"idle", "done"}
At(r, op, pc) == req[r].op = op /\ req[r].pc = pc

\* A collaborator call of slot r is recorded in its call log.
Logged(r, call) == Append(req[r].log, call)

\* The awaited call of slot r throws: control goes to the catch block at `pc`.
Throws(r, call, pc) ==
    req' = [req EXCEPT ![r].pc = pc, ![r].err = RawError, ![r].threw = TRUE,
                       ![r].log = Logged(r, call)]

\* The request of slot r ends: `kind` is "ok" or the error it rejects with.
Ends(r, call, kind, out) ==
    req' = [req EXCEPT ![r].pc = "done", ![r].result = kind, ![r].out = out,
                       ![r].log = Logged(r, call)]

\* The awaited call of slot r throws and nothing catches it, or the catch
\* block rethrows it as it is.
EndsRaw(r, call) ==
    req' = [req EXCEPT ![r].pc = "done", ![r].result = RawError, ![r].threw = TRUE,
                       ![r].log = Logged(r, call)]

\* ---------------------------------------------------------------- createUser
CreateUser_Call(r) ==
    /\ Free(r)
    /\ nStarted < MaxRequests
    /\ \E email \in Emails, password \in NewPasswords, nickname \in Nicknames,
          imageUrl \in ImageUrls :
         req' = [req EXCEPT ![r] = [Idle EXCEPT !.op = "createUser", !.pc = "start",
                                        !.email = email, !.password = password,
                                        !.nickname = nickname, !.imageUrl = imageUrl]]
    /\ nStarted' = nStarted + 1
    /\ writers' = writers \ {r}
    /\ UNCHANGED <<users, committed, inTxn, nextId>>

CreateUser_Start(r) ==
    /\ At(r, "createUser", "start")
    /\ \/ /\ DbStart
          /\ req' = [req EXCEPT ![r].pc = "findByEmail",
                                ![r].log = Logged(r, "START TRANSACTION")]
       \/ /\ Throws(r, "START TRANSACTION", "rollback")
          /\ UNCHANGED db
    /\ UNCHANGED <<nextId, nStarted>>

\* createUser without its duplicate check: a found user is not an error.
CreateUser_FindByEmail_NoCheck(r) ==
    /\ At(r, "createUser", "findByEmail")
    /\ \/ req' = [req EXCEPT ![r].user = FindByEmail(users, req[r].email),
                             ![r].pc = "hash",
                             ![r].log = Logged(r, "User.findByEmail")]
       \/ Throws(r, "User.findByEmail", "rollback")
    /\ UNCHANGED <<db, nextId, nStarted>>

CreateUser_FindByEmail(r) ==
    /\ At(r, "createUser", "findByEmail")
    /\ \/ LET user == FindByEmail(users, req[r].email)
          IN req' = [req EXCEPT ![r].user = user,
                                ![r].pc = IF Truthy(user) THEN "rollback" ELSE "hash",
                                ![r].err = IF Truthy(user) THEN "ConflictError" ELSE "",
                                ![r].log = Logged(r, "User.findByEmail")]
       \/ Throws(r, "User.findByEmail", "rollback")
    /\ UNCHANGED <<db, nextId, nStarted>>

CreateUser_Hash(r) ==
    /\ At(r, "createUser", "hash")
    /\ \/ req' = [req EXCEPT ![r].hashedPassword = Hash(req[r].password),
                             ![r].pc = "create",
                             ![r].log = Logged(r, "bcrypt.hash")]
       \/ Throws(r, "bcrypt.hash", "rollback")
    /\ UNCHANGED <<db, nextId, nStarted>>

CreateUser_Create(r) ==
    /\ At(r, "createUser", "create")
    /\ \/ /\ DbWrite(r, users \cup {NewRow(nextId, req[r].email, req[r].hashedPassword,
                                           req[r].nickname, req[r].imageUrl)})
          /\ nextId' = nextId + 1
          /\ req' = [req EXCEPT ![r].pc = "commit", ![r].log = Logged(r, "User.create")]
       \/ /\ Throws(r, "User.create", "rollback")
          /\ UNCHANGED <<db, nextId>>
    /\ UNCHANGED nStarted

CreateUser_Commit(r) ==
    /\ At(r, "createUser", "commit")
    /\ \/ /\ DbCommit
          /\ Ends(r, "COMMIT", "ok", <<>>)
       \/ /\ Throws(r, "COMMIT", "rollback")
          /\ UNCHANGED db
    /\ UNCHANGED <<nextId, nStarted>>

CreateUser_Rollback(r) ==
    /\ At(r, "createUser", "rollback")
    /\ \/ /\ DbRollback
          /\ Ends(r, "ROLLBACK",
                  IF req[r].err = "ConflictError" THEN "ConflictError" ELSE "BadRequestError",
                  <<>>)
       \/ /\ EndsRaw(r, "ROLLBACK")
          /\ UNCHANGED db
    /\ UNCHANGED <<nextId, nStarted>>

\* ---------------------------------------------------------------- getUser
GetUser_Call(r) ==
    /\ Free(r)
    /\ nStarted < MaxRequests
    /\ \E email \in Emails, password \in Passwords :
         req' = [req EXCEPT ![r] = [Idle EXCEPT !.op = "getUser", !.pc = "findByEmail",
                                        !.email = email, !.password = password]]
    /\ nStarted' = nStarted + 1
    /\ writers' = writers \ {r}
    /\ UNCHANGED <<users, committed, inTxn, nextId>>

\* The payload getUser signs for a user row.
TokenPayload(user) ==
    [userId |-> user.id, email |-> user.email, name |-> user.nickname,
     description |-> user.description]

\* process.env.JWT_SECRET_KEY || 'jwt-secret-key'
SecretKey == "jwt-secret-key"

\* The catch block of getUser: NotFoundError and UnauthorizedError pass,
\* anything else becomes UnauthorizedError.
GetUser_Catch(kind) ==
    IF kind \in {"NotFoundError", "UnauthorizedError"} THEN kind ELSE "UnauthorizedError"

GetUser_FindByEmail(r) ==
    /\ At(r, "getUser", "findByEmail")
    /\ \/ LET user == FindByEmail(users, req[r].email)
          IN IF Truthy(user)
             THEN req' = [req EXCEPT ![r].user = user, ![r].pc = "compare",
                                     ![r].log = Logged(r, "User.findByEmail")]
             ELSE Ends(r, "User.findByEmail", GetUser_Catch("NotFoundError"), <<>>)
       \/ req' = [req EXCEPT ![r].pc = "done", ![r].result = GetUser_Catch(RawError),
                             ![r].threw = TRUE,
                             ![r].log = Logged(r, "User.findByEmail")]
    /\ UNCHANGED <<db, nextId, nStarted>>

\* getUser with the result of bcrypt.compare ignored.
GetUser_Compare_AnyPassword(r) ==
    /\ At(r, "getUser", "compare")
    /\ \/ req' = [req EXCEPT ![r].pc = "done", ![r].result = "ok",
                             ![r].out = Sign(TokenPayload(req[r].user), SecretKey),
                             ![r].log = Logged(r, "bcrypt.compare") \o <<"jwt.sign">>]
       \/ req' = [req EXCEPT ![r].pc = "done", ![r].result = GetUser_Catch(RawError),
                             ![r].threw = TRUE,
                             ![r].log = Logged(r, "bcrypt.compare")]
    /\ UNCHANGED <<db, nextId, nStarted>>

GetUser_Compare(r) ==
    /\ At(r, "getUser", "compare")
    /\ \/ /\ ~Compare(req[r].password, req[r].user.password)
          /\ Ends(r, "bcrypt.compare", GetUser_Catch("UnauthorizedError"), <<>>)
       \/ /\ Compare(req[r].password, req[r].user.password)
          /\ req' = [req EXCEPT ![r].pc = "done", ![r].result = "ok",
                                ![r].out = Sign(TokenPayload(req[r].user), SecretKey),
                                ![r].log = Logged(r, "bcrypt.compare") \o <<"jwt.sign">>]
       \/ req' = [req EXCEPT ![r].pc = "done", ![r].result = GetUser_Catch(RawError),
                             ![r].threw = TRUE,
                             ![r].log = Logged(r, "bcrypt.compare")]
       \/ /\ Compare(req[r].password, req[r].user.password)
          /\ req' = [req EXCEPT ![r].pc = "done", ![r].result = GetUser_Catch(RawError),
                                ![r].threw = TRUE,
                                ![r].log = Logged(r, "bcrypt.compare") \o <<"jwt.sign">>]
    /\ UNCHANGED <<db, nextId, nStarted>>

\* ---------------------------------------------------------------- loginCheck
LoginCheck_Call(r) ==
    /\ Free(r)
    /\ nStarted < MaxRequests
    /\ \E userId \in IdInputs :
         req' = [req EXCEPT ![r] = [Idle EXCEPT !.op = "loginCheck", !.pc = "findById",
                                        !.userId = userId]]
    /\ nStarted' = nStarted + 1
    /\ writers' = writers \ {r}
    /\ UNCHANGED <<users, committed, inTxn, nextId>>

LoginCheck_FindById(r) ==
    /\ At(r, "loginCheck", "findById")
    /\ \/ LET user == FindById(users, req[r].userId)
          IN IF ~Truthy(user)
             THEN Ends(r, "User.findById", "NotFoundError", <<>>)
             ELSE req' = [req EXCEPT ![r].pc = "done", ![r].result = "ok", ![r].user = user,
                                     ![r].out = [userId |-> user.id, email |-> user.email,
                                                 nickname |-> user.nickname,
                                                 userImage |-> Get(user, "userImage")],
                                     ![r].log = Logged(r, "User.findById")]
       \/ EndsRaw(r, "User.findById")
    /\ UNCHANGED <<db, nextId, nStarted>>

\* ---------------------------------------------------------------- getUserPoint
GetUserPoint_Call(r) ==
    /\ Free(r)
    /\ nStarted < MaxRequests
    /\ \E userId \in IdInputs :
         req' = [req EXCEPT ![r] = [Idle EXCEPT !.op = "getUserPoint", !.pc = "findById",
                                        !.userId = userId]]
    /\ nStarted' = nStarted + 1
    /\ writers' = writers \ {r}
    /\ UNCHANGED <<users, committed, inTxn, nextId>>

\* The catch block of getUserPoint and getUserCount.
GetUserPoint_Catch(kind) ==
    IF kind = "UnauthorizedError" THEN kind ELSE "InternalServerError"

GetUserPoint_FindById(r) ==
    /\ At(r, "getUserPoint", "findById")
    /\ \/ LET user == FindById(users, req[r].userId)
          IN IF ~Truthy(user)
             THEN Ends(r, "User.findById", GetUserPoint_Catch("UnauthorizedError"), <<>>)
             ELSE req' = [req EXCEPT ![r].user = user, ![r].pc = "getPoint",
                                     ![r].log = Logged(r, "User.findById")]
       \/ req' = [req EXCEPT ![r].pc = "done", ![r].result = GetUserPoint_Catch(RawError),
                             ![r].threw = TRUE, ![r].log = Logged(r, "User.findById")]
    /\ UNCHANGED <<db, nextId, nStarted>>

\* The userPoint object getUserPoint builds from the row User.getPoint returns.
UserPointOf(getUserPoint) ==
    [id |-> getUserPoint.id, nickname |-> getUserPoint.nickname,
     imageUrl |-> getUserPoint.imageUrl, accuPoint |-> getUserPoint.accuPoint]

GetUserPoint_GetPoint(r) ==
    /\ At(r, "getUserPoint", "getPoint")
    /\ \/ LET getUserPoint == FindById(users, req[r].userId)
          IN IF Truthy(getUserPoint)
             THEN Ends(r, "User.getPoint", "ok", UserPointOf(getUserPoint))
             ELSE \* no row any more: reading a field of undefined throws
                  Ends(r, "User.getPoint", GetUserPoint_Catch("TypeError"), <<>>)
       \/ req' = [req EXCEPT ![r].pc = "done", ![r].result = GetUserPoint_Catch(RawError),
                             ![r].threw = TRUE, ![r].log = Logged(r, "User.getPoint")]
    /\ UNCHANGED <<db, nextId, nStarted>>

\* ---------------------------------------------------------------- getUserCount
GetUserCount_Call(r) ==
    /\ Free(r)
    /\ nStarted < MaxRequests
    /\ \E userId \in IdInputs :
         req' = [req EXCEPT ![r] = [Idle EXCEPT !.op = "getUserCount", !.pc = "findById",
                                        !.userId = userId]]
    /\ nStarted' = nStarted + 1
    /\ writers' = writers \ {r}
    /\ UNCHANGED <<users, committed, inTxn, nextId>>

GetUserCount_FindById(r) ==
    /\ At(r, "getUserCount", "findById")
    /\ \/ LET user == FindById(users, req[r].userId)
          IN IF ~Truthy(user)
             THEN Ends(r, "User.findById", GetUserPoint_Catch("UnauthorizedError"), <<>>)
             ELSE req' = [req EXCEPT ![r].user = user, ![r].pc = "getCount",
                                     ![r].log = Logged(r, "User.findById")]
       \/ req' = [req EXCEPT ![r].pc = "done", ![r].result = GetUserPoint_Catch(RawError),
                             ![r].threw = TRUE, ![r].log = Logged(r, "User.findById")]
    /\ UNCHANGED <<db, nextId, nStarted>>

GetUserCount_GetCount(r) ==
    /\ At(r, "getUserCount", "getCount")
    /\ \/ Ends(r, "User.getCount", "ok", [userCount |-> Cardinality(users)])
       \/ req' = [req EXCEPT ![r].pc = "done", ![r].result = GetUserPoint_Catch(RawError),
                             ![r].threw = TRUE, ![r].log = Logged(r, "User.getCount")]
    /\ UNCHANGED <<db, nextId, nStarted>>

\* ---------------------------------------------------------------- getUserInfo
GetUserInfo_Call(r) ==
    /\ Free(r)
    /\ nStarted < MaxRequests
    /\ \E userId \in IdInputs :
         req' = [req EXCEPT ![r] = [Idle EXCEPT !.op = "getUserInfo", !.pc = "findById",
                                        !.userId = userId]]
    /\ nStarted' = nStarted + 1
    /\ writers' = writers \ {r}
    /\ UNCHANGED <<users, committed, inTxn, nextId>>

GetUserInfo_FindById(r) ==
    /\ At(r, "getUserInfo", "findById")
    /\ \/ LET user == FindById(users, req[r].userId)
          IN IF ~Truthy(user)
             THEN Ends(r, "User.findById", "NotFoundError", <<>>)
             ELSE req' = [req EXCEPT ![r].pc = "done", ![r].result = "ok", ![r].user = user,
                                     ![r].out = [id |-> user.id, email |-> user.email,
                                                 nickname |-> user.nickname,
                                                 userImage |-> Get(user, "userImage")],
                                     ![r].log = Logged(r, "User.findById")]
       \/ EndsRaw(r, "User.findById")
    /\ UNCHANGED <<db, nextId, nStarted>>

\* ---------------------------------------------------------------- setUserInfo
SetUserInfo_Call(r) ==
    /\ Free(r)
    /\ nStarted < MaxRequests
    /\ \E userId \in IdInputs, toUpdate \in ToUpdates, imageUrl \in ImageUrls :
         req' = [req EXCEPT ![r] = [Idle EXCEPT !.op = "setUserInfo", !.pc = "start",
                                        !.userId = userId, !.toUpdate = toUpdate,
                                        !.imageUrl = imageUrl]]
    /\ nStarted' = nStarted + 1
    /\ writers' = writers \ {r}
    /\ UNCHANGED <<users, committed, inTxn, nextId>>

\* A catch block that wraps every error, NotFoundError included.
SetUserInfo_Catch_WrapsAll(kind) == "InternalServerError"

\* The catch block of setUserInfo and delUserInfo, after ROLLBACK.
SetUserInfo_Catch(kind) ==
    IF kind = "NotFoundError" THEN kind ELSE "InternalServerError"

SetUserInfo_Start(r) ==
    /\ At(r, "setUserInfo", "start")
    /\ \/ /\ DbStart
          /\ req' = [req EXCEPT ![r].pc = "findById",
                                ![r].log = Logged(r, "START TRANSACTION")]
       \/ /\ Throws(r, "START TRANSACTION", "rollback")
          /\ UNCHANGED db
    /\ UNCHANGED <<nextId, nStarted>>

SetUserInfo_FindById(r) ==
    /\ At(r, "setUserInfo", "findById")
    /\ \/ LET user == FindById(users, req[r].userId)
          IN req' = [req EXCEPT ![r].user = user,
                                ![r].pc = IF ~Truthy(user) THEN "rollback"
                                          ELSE IF Len(req[r].toUpdate) = 0 THEN "commit"
                                          ELSE "update",
                                ![r].err = IF ~Truthy(user) THEN "NotFoundError" ELSE "",
                                ![r].log = Logged(r, "User.findById")]
       \/ Throws(r, "User.findById", "rollback")
    /\ UNCHANGED <<db, nextId, nStarted>>

\* One turn of the loop over Object.entries(toUpdate).
SetUserInfo_Update(r) ==
    /\ At(r, "setUserInfo", "update")
    /\ \/ LET entry == req[r].toUpdate[req[r].k + 1]
          IN /\ DbWrite(r, UpdateRows(users, req[r].userId, entry[1], entry[2],
                                      req[r].imageUrl))
             /\ req' = [req EXCEPT ![r].k = @ + 1,
                                   ![r].pc = IF req[r].k + 1 = Len(req[r].toUpdate)
                                             THEN "commit" ELSE "update",
                                   ![r].log = Logged(r, "User.update")]
       \/ /\ Throws(r, "User.update", "rollback")
          /\ UNCHANGED db
    /\ UNCHANGED <<nextId, nStarted>>

SetUserInfo_Commit(r) ==
    /\ At(r, "setUserInfo", "commit")
    /\ \/ /\ DbCommit
          /\ Ends(r, "COMMIT", "ok", <<>>)
       \/ /\ Throws(r, "COMMIT", "rollback")
          /\ UNCHANGED db
    /\ UNCHANGED <<nextId, nStarted>>

SetUserInfo_Rollback(r) ==
    /\ At(r, "setUserInfo", "rollback")
    /\ \/ /\ DbRollback
          /\ Ends(r, "ROLLBACK", SetUserInfo_Catch(req[r].err), <<>>)
       \/ /\ EndsRaw(r, "ROLLBACK")
          /\ UNCHANGED db
    /\ UNCHANGED <<nextId, nStarted>>

\* ---------------------------------------------------------------- delUserInfo
DelUserInfo_Call(r) ==
    /\ Free(r)
    /\ nStarted < MaxRequests
    /\ \E userId \in IdInputs :
         req' = [req EXCEPT ![r] = [Idle EXCEPT !.op = "delUserInfo", !.pc = "start",
                                        !.userId = userId]]
    /\ nStarted' = nStarted + 1
    /\ writers' = writers \ {r}
    /\ UNCHANGED <<users, committed, inTxn, nextId>>

DelUserInfo_Start(r) ==
    /\ At(r, "delUserInfo", "start")
    /\ \/ /\ DbStart
          /\ req' = [req EXCEPT ![r].pc = "findById",
                                ![r].log = Logged(r, "START TRANSACTION")]
       \/ /\ Throws(r, "START TRANSACTION", "rollback")
          /\ UNCHANGED db
    /\ UNCHANGED <<nextId, nStarted>>

DelUserInfo_FindById(r) ==
    /\ At(r, "delUserInfo", "findById")
    /\ \/ LET user == FindById(users, req[r].userId)
          IN req' = [req EXCEPT ![r].user = user,
                                ![r].pc = IF ~Truthy(user) THEN "rollback" ELSE "delete",
                                ![r].err = IF ~Truthy(user) THEN "NotFoundError" ELSE "",
                                ![r].log = Logged(r, "User.findById")]
       \/ Throws(r, "User.findById", "rollback")
    /\ UNCHANGED <<db, nextId, nStarted>>

DelUserInfo_Delete(r) ==
    /\ At(r, "delUserInfo", "delete")
    /\ \/ /\ DbWrite(r, DeleteRows(users, req[r].userId))
          /\ req' = [req EXCEPT ![r].pc = "commit", ![r].log = Logged(r, "User.delete")]
       \/ /\ Throws(r, "User.delete", "rollback")
          /\ UNCHANGED db
    /\ UNCHANGED <<nextId, nStarted>>

DelUserInfo_Commit(r) ==
    /\ At(r, "delUserInfo", "commit")
    /\ \/ /\ DbCommit
          /\ Ends(r, "COMMIT", "ok", <<>>)
       \/ /\ Throws(r, "COMMIT", "rollback")
          /\ UNCHANGED db
    /\ UNCHANGED <<nextId, nStarted>>

DelUserInfo_Rollback(r) ==
    /\ At(r, "delUserInfo", "rollback")
    /\ \/ /\ DbRollback
          /\ Ends(r, "ROLLBACK", SetUserInfo_Catch(req[r].err), <<>>)
       \/ /\ EndsRaw(r, "ROLLBACK")
          /\ UNCHANGED db
    /\ UNCHANGED <<nextId, nStarted>>

\* ---------------------------------------------------------------- getRankList
GetRankList_Call(r) ==
    /\ Free(r)
    /\ nStarted < MaxRequests
    /\ \E userId \in IdInputs, point \in PointInputs, date \in Dates :
         req' = [req EXCEPT ![r] = [Idle EXCEPT !.op = "getRankList", !.pc = "start",
                                        !.userId = userId, !.point = point,
                                        !.date = date]]
    /\ nStarted' = nStarted + 1
    /\ writers' = writers \ {r}
    /\ UNCHANGED <<users, committed, inTxn, nextId>>

\* The catch block of getRankList, after ROLLBACK.
GetRankList_Catch(kind) ==
    IF kind = "UnauthorizedError" THEN kind ELSE "InternalServerError"

\* The branch on `point` with === in place of ==: strings never match.
GetRankList_Dispatch_Strict(point) ==
    IF point.js = "number" /\ ToNumber(point) = 0 THEN "firstRankList"
    ELSE IF point.js = "number" /\ ToNumber(point) = -1 THEN "commit"
    ELSE "getRankList"

\* Where getRankList goes once the requester is found: the branch on `point`.
GetRankList_Dispatch(point) ==
    IF LooseEq(point, 0) THEN "firstRankList"
    ELSE IF LooseEq(point, -1) THEN "commit"
    ELSE "getRankList"

GetRankList_Start(r) ==
    /\ At(r, "getRankList", "start")
    /\ \/ /\ DbStart
          /\ req' = [req EXCEPT ![r].pc = "findById",
                                ![r].log = Logged(r, "START TRANSACTION")]
       \/ /\ Throws(r, "START TRANSACTION", "rollback")
          /\ UNCHANGED db
    /\ UNCHANGED <<nextId, nStarted>>

GetRankList_FindById(r) ==
    /\ At(r, "getRankList", "findById")
    /\ \/ LET user == FindById(users, req[r].userId)
              to == GetRankList_Dispatch(req[r].point)
          IN req' = [req EXCEPT ![r].user = user,
                                ![r].pc = IF ~Truthy(user) THEN "rollback" ELSE to,
                                ![r].err = IF ~Truthy(user) THEN "UnauthorizedError"
                                           ELSE "",
                                ![r].out = IF Truthy(user) /\ to = "commit"
                                           THEN DoneMarker ELSE <<>>,
                                ![r].log = Logged(r, "User.findById")]
       \/ Throws(r, "User.findById", "rollback")
    /\ UNCHANGED <<db, nextId, nStarted>>

GetRankList_First(r) ==
    /\ At(r, "getRankList", "firstRankList")
    /\ \/ req' = [req EXCEPT ![r].out = FirstRankList(users), ![r].pc = "commit",
                             ![r].log = Logged(r, "Rank.firstRankList")]
       \/ Throws(r, "Rank.firstRankList", "rollback")
    /\ UNCHANGED <<db, nextId, nStarted>>

GetRankList_Page(r) ==
    /\ At(r, "getRankList", "getRankList")
    /\ \/ req' = [req EXCEPT ![r].out = GetRankListPage(users, req[r].point, req[r].date),
                             ![r].pc = "commit",
                             ![r].log = Logged(r, "Rank.getRankList")]
       \/ Throws(r, "Rank.getRankList", "rollback")
    /\ UNCHANGED <<db, nextId, nStarted>>

GetRankList_Commit(r) ==
    /\ At(r, "getRankList", "commit")
    /\ \/ /\ DbCommit
          /\ Ends(r, "COMMIT", "ok", req[r].out)
       \/ /\ Throws(r, "COMMIT", "rollback")
          /\ UNCHANGED db
    /\ UNCHANGED <<nextId, nStarted>>

GetRankList_Rollback(r) ==
    /\ At(r, "getRankList", "rollback")
    /\ \/ /\ DbRollback
          /\ Ends(r, "ROLLBACK", GetRankList_Catch(req[r].err), <<>>)
       \/ /\ EndsRaw(r, "ROLLBACK")
          /\ UNCHANGED db
    /\ UNCHANGED <<nextId, nStarted>>

\* ---------------------------------------------------------------- specification
Next ==
    \E r \in Slots :
        \/ CreateUser_Call(r)
        \/ CreateUser_Start(r)
        \/ CreateUser_FindByEmail(r)
        \/ CreateUser_Hash(r)
        \/ CreateUser_Create(r)
        \/ CreateUser_Commit(r)
        \/ CreateUser_Rollback(r)
        \/ GetUser_Call(r)
        \/ GetUser_FindByEmail(r)
        \/ GetUser_Compare(r)
        \/ LoginCheck_Call(r)
        \/ LoginCheck_FindById(r)
        \/ GetUserPoint_Call(r)
        \/ GetUserPoint_FindById(r)
        \/ GetUserPoint_GetPoint(r)
        \/ GetUserCount_Call(r)
        \/ GetUserCount_FindById(r)
        \/ GetUserCount_GetCount(r)
        \/ GetUserInfo_Call(r)
        \/ GetUserInfo_FindById(r)
        \/ SetUserInfo_Call(r)
        \/ SetUserInfo_Start(r)
        \/ SetUserInfo_FindById(r)
        \/ SetUserInfo_Update(r)
        \/ SetUserInfo_Commit(r)
        \/ SetUserInfo_Rollback(r)
        \/ DelUserInfo_Call(r)
        \/ DelUserInfo_Start(r)
        \/ DelUserInfo_FindById(r)
        \/ DelUserInfo_Delete(r)
        \/ DelUserInfo_Commit(r)
        \/ DelUserInfo_Rollback(r)
        \/ GetRankList_Call(r)
        \/ GetRankList_Start(r)
        \/ GetRankList_FindById(r)
        \/ GetRankList_First(r)
        \/ GetRankList_Page(r)
        \/ GetRankList_Commit(r)
        \/ GetRankList_Rollback(r)

Spec == Init /\ [][Next]_vars

\* ---------------------------------------------------------------- properties
InFlight(r) == req[r].pc \notin {"idle", "done"}
Done(r, op) == req[r].op = op /\ req[r].pc = "done"
Has(r, call) == \E i \in 1..Len(req[r].log) : req[r].log[i] = call
Count(r, call) == Cardinality({ i \in 1..Len(req[r].log) : req[r].log[i] = call })
LastCall(r) == req[r].log[Len(req[r].log)]

\* Slot r takes a step of its running request.
Steps(r) == InFlight(r) /\ req'[r] # req[r]

\* The step moves no row: at most the commit boundary of the session moves.
NoRowWritten ==
    /\ users' \in {users, committed}
    /\ committed' \in {users, committed}

TxnStatements == {"START TRANSACTION", "COMMIT", "ROLLBACK"}
TxnOps == {"createUser", "setUserInfo", "delUserInfo", "getRankList"}
PlainOps == {"getUser", "loginCheck", "getUserPoint", "getUserCount", "getUserInfo"}

\* C1: createUser writes a user row exactly when the email is not registered.
\* A call whose lookup returns a user never invokes User.create, moves no row
\* and rejects with ConflictError; a call whose lookup returns nothing, and
\* whose collaborators all answer, invokes User.create once and resolves; the
\* create adds exactly one row, and its password is the output of bcrypt.hash
\* for the given password, not the password.
C1_CreateUserWritesIffEmailFree ==
    /\ [](\A r \in Slots :
            req[r].op = "createUser" =>
              /\ Has(r, "User.create") => ~Truthy(req[r].user)
              /\ Count(r, "User.create") <= 1
              /\ Done(r, "createUser") =>
                   /\ req[r].result = "ok" <=> ~Truthy(req[r].user) /\ ~req[r].threw
                   /\ req[r].result = "ok" => Count(r, "User.create") = 1
                   /\ Truthy(req[r].user) /\ ~req[r].threw =>
                        req[r].result = "ConflictError")
    /\ [][\A r \in Slots :
            req[r].op = "createUser" /\ Steps(r) =>
              IF Count(r, "User.create") < Cardinality({ i \in 1..Len(req'[r].log) :
                                                          req'[r].log[i] = "User.create" })
                 /\ ~req'[r].threw
              THEN \E row \in users' \ users :
                     /\ users' = users \cup {row}
                     /\ row.email = req[r].email
                     /\ row.password = Hash(req[r].password)
                     /\ row.password # req[r].password
                     /\ \A u \in users : u.id # row.id
              ELSE NoRowWritten]_vars
    /\ [][\A r \in Slots :
            At(r, "createUser", "findByEmail") /\ Steps(r) /\ ~req'[r].threw =>
              (Truthy(req'[r].user) <=> \E u \in users : u.email = req[r].email)]_vars

\* C1 witness: one registration has resolved and its hashed row is stored,
\* and another has been rejected with ConflictError.
C1_Witness ==
    \E r, s \in Slots :
        /\ Done(r, "createUser") /\ req[r].result = "ok"
        /\ \E u \in committed : u.email = req[r].email /\ u.password = Hash(req[r].password)
        /\ Done(s, "createUser") /\ req[s].result = "ConflictError"

\* C2: no reachable state holds two user rows with the same email.
C2_EmailUnique ==
    /\ \A u, v \in users : u.email = v.email => u = v
    /\ \A u, v \in committed : u.email = v.email => u = v

\* C3: once setUserInfo has rejected because a User.update threw after at
\* least one of its updates went through, the user's row is what it was
\* before the call.  The other slot runs
\* only getRankList, which writes nothing, so any difference is a write of the
\* failed call.
C3_SetUserInfoAtomic ==
    \A r \in Slots :
        ( /\ Done(r, "setUserInfo")
          /\ req[r].result = "InternalServerError"
          /\ req[r].k > 0
          /\ Count(r, "User.update") = req[r].k + 1
          /\ \A s \in Slots \ {r} : req[s].op \in {"none", "getRankList"} )
        => /\ FindById(committed, req[r].userId) = req[r].user
           /\ FindById(users, req[r].userId) = req[r].user

\* C4: a START TRANSACTION, COMMIT or ROLLBACK that takes effect for one
\* request never finds writes of another request, still in flight, pending in
\* the transaction it ends.
C4_NoSharedTransaction ==
    [][\A r \in Slots :
         ( /\ Steps(r)
           /\ Len(req'[r].log) = Len(req[r].log) + 1
           /\ req'[r].log[Len(req'[r].log)] \in TxnStatements
           /\ req'[r].threw = req[r].threw )
         => \A s \in writers \ {r} : ~InFlight(s)]_vars

\* C5: every public operation issues START TRANSACTION before its first data
\* access and ends with COMMIT as its last statement when it resolves, or
\* with ROLLBACK as its last statement when it rejects.
C5_EveryOperationTransactional ==
    \A r \in Slots :
        req[r].pc = "done" =>
          /\ req[r].log[1] = "START TRANSACTION"
          /\ req[r].result = "ok" => LastCall(r) = "COMMIT"
          /\ req[r].result # "ok" => LastCall(r) = "ROLLBACK"

\* The fallback error C6 names for each operation.
C6_Fallback(op) ==
    CASE op = "createUser" -> "BadRequestError"
      [] op = "getUser" -> "UnauthorizedError"
      [] OTHER -> "InternalServerError"

\* C6: every rejection is one of the five error kinds, and a request in which
\* a collaborator threw rejects with an error kind, never with the
\* collaborator's own exception.
C6_NoRawErrorEscapes ==
    \A r \in Slots :
        req[r].pc = "done" /\ req[r].result # "ok" =>
          /\ req[r].result \in ErrorKinds
          /\ req[r].err = RawError => req[r].result = C6_Fallback(req[r].op)

\* C7: getUser resolves with a token only for a stored user whose hash matches
\* the password, and the token decodes to that user's id, email and nickname;
\* a lookup that returns no user rejects with NotFoundError; a found user with
\* a password that does not match rejects with UnauthorizedError.
C7_LoginClassifies ==
    /\ [](\A r \in Slots :
            Done(r, "getUser") =>
              /\ req[r].result \in {"ok", "NotFoundError", "UnauthorizedError"}
              /\ req[r].result = "ok" =>
                   /\ Truthy(req[r].user)
                   /\ req[r].user.email = req[r].email
                   /\ req[r].user.password = Hash(req[r].password)
                   /\ Decode(req[r].out).userId = req[r].user.id
                   /\ Decode(req[r].out).email = req[r].user.email
                   /\ Decode(req[r].out).name = req[r].user.nickname
              /\ ~Truthy(req[r].user) /\ ~req[r].threw => req[r].result = "NotFoundError"
              /\ req[r].result = "NotFoundError" => ~Truthy(req[r].user)
              /\ Truthy(req[r].user) /\ req[r].user.password # Hash(req[r].password) =>
                   req[r].result = "UnauthorizedError"
              /\ Truthy(req[r].user) /\ req[r].user.password = Hash(req[r].password)
                 /\ ~req[r].threw => req[r].result = "ok")
    /\ [][\A r \in Slots :
            At(r, "getUser", "findByEmail") /\ Steps(r) /\ ~req'[r].threw =>
              IF \E u \in users : u.email = req[r].email
              THEN req'[r].user \in users /\ req'[r].user.email = req[r].email
              ELSE ~Truthy(req'[r].user) /\ req'[r].result = "NotFoundError"]_vars

\* C7 witness: a login has resolved with a token for the stored user.
C7_Witness ==
    \E r \in Slots :
        /\ Done(r, "getUser") /\ req[r].result = "ok"
        /\ Decode(req[r].out).userId = SeedUser.id
        /\ Decode(req[r].out).name = SeedUser.nickname

\* The error C8 names for an absent userId.
C8_AbsentKind(op) ==
    IF op \in {"getUserPoint", "getUserCount"} THEN "UnauthorizedError" ELSE "NotFoundError"

C8_Ops ==
    {"loginCheck", "getUserInfo", "setUserInfo", "delUserInfo", "getUserPoint",
     "getUserCount"}

\* C8: a findById that returns no row makes loginCheck, getUserInfo,
\* setUserInfo and delUserInfo reject with NotFoundError, and getUserPoint and
\* getUserCount with UnauthorizedError; such a call makes no User.update,
\* User.delete, User.getPoint or User.getCount call, and none of its steps
\* writes a row.
C8_AbsentUserId ==
    /\ [](\A r \in Slots :
            req[r].op \in C8_Ops /\ ~Truthy(req[r].user) =>
              /\ \A c \in {"User.update", "User.delete", "User.getPoint", "User.getCount"} :
                   ~Has(r, c)
              /\ req[r].pc = "done" /\ ~req[r].threw =>
                   req[r].result = C8_AbsentKind(req[r].op))
    /\ [][\A r \in Slots :
            req[r].op \in C8_Ops /\ Steps(r) =>
              /\ ( /\ req[r].pc = "findById"
                   /\ ~req'[r].threw
                   /\ \A u \in users : u.id # req[r].userId )
                 => /\ ~Truthy(req'[r].user)
                    /\ IF req[r].op \in TxnOps
                       THEN req'[r].pc = "rollback"
                            /\ req'[r].err = C8_AbsentKind(req[r].op)
                       ELSE req'[r].pc = "done"
                            /\ req'[r].result = C8_AbsentKind(req[r].op)
              /\ req[r].op \in PlainOps => users' = users /\ committed' = committed
              /\ ~Truthy(req'[r].user) => NoRowWritten]_vars

\* C8 witness: an update of an absent userId has been rejected with
\* NotFoundError, and a point lookup of one with UnauthorizedError.
C8_Witness ==
    \E r, s \in Slots :
        /\ Done(r, "setUserInfo") /\ req[r].result = "NotFoundError"
        /\ Len(req[r].toUpdate) > 0
        /\ Done(s, "getUserPoint") /\ req[s].result = "UnauthorizedError"
        /\ ~req[s].threw

\* The values of `point` that getRankList takes for 0 and for -1: the
\* comparison is JavaScript's ==, so the numeral strings (and, for 0, the
\* empty string) count as well.
C9_ZeroPoints ==
    { [js |-> "number", text |-> "0"], [js |-> "string", text |-> "0"],
      [js |-> "string", text |-> ""] }
C9_MinusOnePoints ==
    { [js |-> "number", text |-> "-1"], [js |-> "string", text |-> "-1"] }

\* C9: getRankList makes a Rank call only for a requester findById returns;
\* an absent requester is rejected with UnauthorizedError.  For a found
\* requester, point == 0 resolves with the result of Rank.firstRankList,
\* point == -1 with the completion marker and no Rank call, and any other
\* value with the result of Rank.getRankList for the given point and date.
C9_RankDispatch ==
    /\ [](\A r \in Slots :
            req[r].op = "getRankList" =>
              /\ Has(r, "Rank.firstRankList") \/ Has(r, "Rank.getRankList") =>
                   Truthy(req[r].user)
              /\ req[r].pc = "done" =>
                   /\ ~Truthy(req[r].user) /\ ~req[r].threw =>
                        req[r].result = "UnauthorizedError"
                   /\ Truthy(req[r].user) /\ ~req[r].threw => req[r].result = "ok"
                   /\ req[r].result = "ok" =>
                        /\ Truthy(req[r].user)
                        /\ req[r].point \in C9_ZeroPoints =>
                             /\ req[r].out.call = "Rank.firstRankList"
                             /\ Count(r, "Rank.firstRankList") = 1
                             /\ ~Has(r, "Rank.getRankList")
                        /\ req[r].point \in C9_MinusOnePoints =>
                             /\ req[r].out = DoneMarker
                             /\ ~Has(r, "Rank.firstRankList")
                             /\ ~Has(r, "Rank.getRankList")
                        /\ req[r].point \notin C9_ZeroPoints \cup C9_MinusOnePoints =>
                             /\ req[r].out.call = "Rank.getRankList"
                             /\ req[r].out.point = req[r].point
                             /\ req[r].out.date = req[r].date
                             /\ Count(r, "Rank.getRankList") = 1
                             /\ ~Has(r, "Rank.firstRankList"))
    /\ [][\A r \in Slots :
            Steps(r) /\ ~req'[r].threw =>
              /\ At(r, "getRankList", "firstRankList") =>
                   req'[r].out = FirstRankList(users)
              /\ At(r, "getRankList", "getRankList") =>
                   req'[r].out = GetRankListPage(users, req[r].point, req[r].date)
              /\ At(r, "getRankList", "findById") =>
                   (Truthy(req'[r].user) <=> \E u \in users : u.id = req[r].userId)]_vars

\* C9 witness: one call has resolved with the first page and another with the
\* page after a cursor.
C9_Witness ==
    \E r, s \in Slots :
        /\ Done(r, "getRankList") /\ req[r].result = "ok"
        /\ req[r].point \in C9_ZeroPoints /\ req[r].out.call = "Rank.firstRankList"
        /\ Done(s, "getRankList") /\ req[s].result = "ok"
        /\ req[s].point \notin C9_ZeroPoints \cup C9_MinusOnePoints
        /\ req[s].out.call = "Rank.getRankList"

\* C10: getUserPoint resolves with the user's current point and accumulated
\* point.
C10_BothPointsReturned ==
    \A r \in Slots :
        Done(r, "getUserPoint") /\ req[r].result = "ok" =>
          /\ "accuPoint" \in DOMAIN req[r].out
          /\ req[r].out.accuPoint = req[r].user.accuPoint
          /\ "point" \in DOMAIN req[r].out
          /\ req[r].out.point = req[r].user.point
====
